---- MODULE Spec2Model ----
(***************************************************************************)
(* Model of pbixparser (src/src/pbixparser.py, src/main.py).               *)
(*                                                                         *)
(* Part 1 models the structural codec: json.dumps / json.loads as          *)
(* conversions between value trees and text, and the two recursive passes  *)
(* __recursive_parser_str2json / __recursive_parser_json2str.              *)
(* Part 2 models the section editor (rename_section, duplicate_section)    *)
(* over a heap of Python objects, and the lifetime of the temporary        *)
(* working directory of one session.                                       *)
(*                                                                         *)
(* Text is a sequence of lexical symbols: the JSON structural characters   *)
(* { } [ ] : , " \ and the blank, the decimal digits, and words (a word    *)
(* stands for a run of letters: "null", "true", "false", "config", ...).   *)
(* Numbers are natural numbers; mapping key order is not part of a value.  *)
(***************************************************************************)
EXTENDS Naturals, Sequences, FiniteSets, TLC

(***************************************************************************)
(* Part 1: value trees and JSON text                                       *)
(***************************************************************************)

\* Python values: None, bool, int, str, list, dict (tagged tuples).
VNull == <<"null">>
VBool(b) == <<"bool", b>>
VNum(n) == <<"num", n>>
VStr(s) == <<"str", s>>
VList(l) == <<"list", l>>
VDict(f) == <<"dict", f>>

Tag(v) == v[1]
Payload(v) == v[2]

EmptyMap == [k \in {} |-> VNull]
OneKey(k, v) == [x \in {k} |-> v]
TwoKeys(k1, v1, k2, v2) == [x \in {k1, k2} |-> IF x = k1 THEN v1 ELSE v2]

QUOTE == "\""
BSLASH == "\\"
DigitSeq == <<"0", "1", "2", "3", "4", "5", "6", "7", "8", "9">>
Digits == {DigitSeq[i] : i \in 1..10}
DigitVal(c) == (CHOOSE i \in 1..10 : DigitSeq[i] = c) - 1

\* class attribute special_parsing_keys
special_parsing_keys == {<<"config">>, <<"filters">>}

\* ---- json.dumps -------------------------------------------------------

RECURSIVE NumText(_)
NumText(n) ==
    IF n < 10 THEN <<DigitSeq[n + 1]>>
    ELSE NumText(n \div 10) \o <<DigitSeq[(n % 10) + 1]>>

RECURSIVE Escape(_)
Escape(s) ==
    IF s = <<>> THEN <<>>
    ELSE IF Head(s) \in {QUOTE, BSLASH}
         THEN <<BSLASH, Head(s)>> \o Escape(Tail(s))
         ELSE <<Head(s)>> \o Escape(Tail(s))

QuoteText(s) == <<QUOTE>> \o Escape(s) \o <<QUOTE>>

\* the keys of a mapping in the order the serializer emits them
RECURSIVE KeyOrder(_)
KeyOrder(S) ==
    IF S = {} THEN <<>>
    ELSE LET k == CHOOSE x \in S : TRUE
         IN <<k>> \o KeyOrder(S \ {k})

RECURSIVE Dumps(_)
RECURSIVE DumpItems(_)
RECURSIVE DumpMembers(_, _)

DumpItems(l) ==
    IF l = <<>> THEN <<>>
    ELSE IF Len(l) = 1 THEN Dumps(l[1])
    ELSE Dumps(l[1]) \o <<",", " ">> \o DumpItems(Tail(l))

DumpMembers(f, ks) ==
    IF ks = <<>> THEN <<>>
    ELSE LET m == QuoteText(ks[1]) \o <<":", " ">> \o Dumps(f[ks[1]])
         IN IF Len(ks) = 1 THEN m
            ELSE m \o <<",", " ">> \o DumpMembers(f, Tail(ks))

Dumps(v) ==
    CASE Tag(v) = "null" -> <<"null">>
      [] Tag(v) = "bool" -> IF Payload(v) THEN <<"true">> ELSE <<"false">>
      [] Tag(v) = "num"  -> NumText(Payload(v))
      [] Tag(v) = "str"  -> QuoteText(Payload(v))
      [] Tag(v) = "list" -> <<"[">> \o DumpItems(Payload(v)) \o <<"]">>
      [] Tag(v) = "dict" ->
            <<"{">> \o DumpMembers(Payload(v), KeyOrder(DOMAIN Payload(v))) \o <<"}">>

\* ---- json.loads -------------------------------------------------------

Fail == [ok |-> FALSE, val |-> VNull, pos |-> 0]
Got(v, p) == [ok |-> TRUE, val |-> v, pos |-> p]

RECURSIVE SkipWs(_, _)
SkipWs(s, i) ==
    IF i <= Len(s) /\ s[i] = " " THEN SkipWs(s, i + 1) ELSE i

\* i is the position after the opening quote; acc is the text read so far
RECURSIVE ScanString(_, _, _)
ScanString(s, i, acc) ==
    IF i > Len(s) THEN Fail
    ELSE IF s[i] = QUOTE THEN Got(acc, i + 1)
    ELSE IF s[i] = BSLASH
         THEN IF i + 1 <= Len(s) /\ s[i + 1] \in {QUOTE, BSLASH}
              THEN ScanString(s, i + 2, Append(acc, s[i + 1]))
              ELSE Fail
    ELSE ScanString(s, i + 1, Append(acc, s[i]))

\* the digits of (0|[1-9][0-9]*) starting at i
RECURSIVE ScanDigits(_, _, _)
ScanDigits(s, i, n) ==
    IF i <= Len(s) /\ s[i] \in Digits
    THEN ScanDigits(s, i + 1, 10 * n + DigitVal(s[i]))
    ELSE Got(VNum(n), i)

ScanNumber(s, i) ==
    IF s[i] = "0" THEN Got(VNum(0), i + 1) ELSE ScanDigits(s, i, 0)

RECURSIVE ParseValue(_, _)
RECURSIVE ParseElems(_, _, _)
RECURSIVE ParseMembers(_, _, _)

ParseElems(s, i, acc) ==
    LET r == ParseValue(s, i)
        k == SkipWs(s, r.pos)
    IN IF ~r.ok \/ k > Len(s) THEN Fail
       ELSE IF s[k] = "," THEN ParseElems(s, SkipWs(s, k + 1), Append(acc, r.val))
       ELSE IF s[k] = "]" THEN Got(VList(Append(acc, r.val)), k + 1)
       ELSE Fail

ParseMembers(s, i, f) ==
    IF i > Len(s) \/ s[i] # QUOTE THEN Fail
    ELSE LET key == ScanString(s, i + 1, <<>>)
             c == SkipWs(s, key.pos)
         IN IF ~key.ok \/ c > Len(s) \/ s[c] # ":" THEN Fail
            ELSE LET r == ParseValue(s, SkipWs(s, c + 1))
                     k == SkipWs(s, r.pos)
                     g == [x \in (DOMAIN f) \cup {key.val} |->
                              IF x = key.val THEN r.val ELSE f[x]]
                 IN IF ~r.ok \/ k > Len(s) THEN Fail
                    ELSE IF s[k] = "," THEN ParseMembers(s, SkipWs(s, k + 1), g)
                    ELSE IF s[k] = "}" THEN Got(VDict(g), k + 1)
                    ELSE Fail

ParseValue(s, i) ==
    IF i > Len(s) THEN Fail
    ELSE IF s[i] = QUOTE THEN
         LET r == ScanString(s, i + 1, <<>>)
         IN IF r.ok THEN Got(VStr(r.val), r.pos) ELSE Fail
    ELSE IF s[i] = "{" THEN
         LET j == SkipWs(s, i + 1)
         IN IF j <= Len(s) /\ s[j] = "}" THEN Got(VDict(EmptyMap), j + 1)
            ELSE ParseMembers(s, j, EmptyMap)
    ELSE IF s[i] = "[" THEN
         LET j == SkipWs(s, i + 1)
         IN IF j <= Len(s) /\ s[j] = "]" THEN Got(VList(<<>>), j + 1)
            ELSE ParseElems(s, j, <<>>)
    ELSE IF s[i] = "null" THEN Got(VNull, i + 1)
    ELSE IF s[i] = "true" THEN Got(VBool(TRUE), i + 1)
    ELSE IF s[i] = "false" THEN Got(VBool(FALSE), i + 1)
    ELSE IF s[i] \in Digits THEN ScanNumber(s, i)
    ELSE Fail

\* json.loads(s): [ok, val]; ok = FALSE stands for the raised JSONDecodeError
Loads(s) ==
    LET r == ParseValue(s, SkipWs(s, 1))
    IN IF r.ok /\ SkipWs(s, r.pos) = Len(s) + 1 THEN r ELSE Fail

\* ---- the two recursive passes ----------------------------------------

RECURSIVE recursive_parser_str2json(_)

\* line 149: a string that parsed is decoded again, whatever it parsed to
ReparseOnce(v) == v
Reparse(v) == recursive_parser_str2json(v)

\* lines 150-151 and 161: a string that does not parse is kept as it is
UnparsedDropped(data) == VNull
Unparsed(data) == data

recursive_parser_str2json(data) ==
    CASE Tag(data) = "str" ->
            LET r == Loads(Payload(data))
            IN IF r.ok THEN Reparse(r.val) ELSE Unparsed(data)
      [] Tag(data) = "list" ->
            VList([i \in 1..Len(Payload(data)) |->
                      recursive_parser_str2json(Payload(data)[i])])
      [] Tag(data) = "dict" ->
            VDict([k \in DOMAIN Payload(data) |->
                      recursive_parser_str2json(Payload(data)[k])])
      [] OTHER -> data

RECURSIVE recursive_parser_json2str(_)

\* line 180: the value stored under a special parsing key
SpecialFieldPlain(v) == recursive_parser_json2str(v)
SpecialFieldDeep(v) == VStr(Dumps(recursive_parser_json2str(v)))
SpecialField(v) == VStr(Dumps(v))

recursive_parser_json2str(data) ==
    CASE Tag(data) = "list" ->
            VList([i \in 1..Len(Payload(data)) |->
                      recursive_parser_json2str(Payload(data)[i])])
      [] Tag(data) = "dict" ->
            VDict([k \in DOMAIN Payload(data) |->
                      IF k \in special_parsing_keys
                      THEN SpecialField(Payload(data)[k])
                      ELSE recursive_parser_json2str(Payload(data)[k])])
      [] OTHER -> data

(***************************************************************************)
(* Inputs of the codec: bounded sets of value trees and of Layout texts    *)
(***************************************************************************)

\* nesting depth of the generated trees
MaxDepth == 3

Keys == {<<"config">>, <<"filters">>, <<"a">>}

\* plain text, text that is a JSON number, text with a quote in it
Leaves ==
    {VNull, VNum(7), VStr(<<"a">>), VStr(<<"1">>), VStr(<<QUOTE, "a">>)}

\* one more level: a sequence, a mapping, or the value as stringified JSON
Wrap(S) ==
    {VList(<<v>>) : v \in S}
      \cup {VDict(OneKey(k, v)) : k \in Keys, v \in S}
      \cup {VStr(Dumps(v)) : v \in S}

RECURSIVE Vals(_)
Vals(n) == IF n = 0 THEN Leaves ELSE Vals(n - 1) \cup Wrap(Vals(n - 1))

\* mappings and sequences with two entries
Wide ==
    {VDict(TwoKeys(<<"config">>, v, k, w)) :
        k \in {<<"filters">>, <<"a">>}, v \in Vals(1), w \in Vals(1)}
      \cup {VList(<<v, w>>) : v \in Vals(1), w \in Wrap(Leaves)}

Trees == Vals(MaxDepth) \cup Wide
Docs == {d \in Trees : Tag(d) = "dict"}
\* what a Layout file may hold: serialized trees, and text that is not JSON
RawTexts == {Dumps(v) : v \in Trees} \cup {<<"a", "{">>, <<>>}

NoLayout == <<"none">>

VARIABLES
    mode,       \* "file": the codec run starts from a Layout text; "doc": from a tree
    cphase,     \* "idle", "start", "extracted", "saved", "reloaded"
    raw,        \* the text of the Layout file
    layout,     \* self.layout as a value tree
    orig,       \* self.layout as save() found it
    sections,   \* self.layout["sections"]: the list, as object identities
    heap,       \* the section dicts: identity -> [displayName, ordinal, body]
    nested,     \* the containers inside sections: identity -> [config]
    pc,         \* "new", "extracted", "raised", "saved", "exited"
    err,        \* the exception the last call raised, or "none"
    tmpdir,     \* PBIXExtractor.__folder_path: [dir, finalizer]
    nops,       \* rename/duplicate calls made so far
    last,       \* the last call and its arguments
    prev        \* the document as the last call found it

cvars == <<mode, cphase, raw, layout, orig>>
evars == <<sections, heap, nested, pc, err, tmpdir, nops, last, prev>>
vars == <<mode, cphase, raw, layout, orig,
          sections, heap, nested, pc, err, tmpdir, nops, last, prev>>

NoDir == [dir |-> "none", finalizer |-> FALSE]
NoCall == [op |-> "none", a |-> "", b |-> "", c |-> ""]
EmptyHeap == <<>>

CodecIdle ==
    /\ mode = "none" /\ cphase = "idle" /\ raw = <<>>
    /\ layout = NoLayout /\ orig = NoLayout

EditorIdle ==
    /\ sections = <<>> /\ heap = EmptyHeap /\ nested = EmptyHeap
    /\ pc = "idle" /\ err = "none" /\ tmpdir = NoDir
    /\ nops = 0 /\ last = NoCall /\ prev = <<>>

CodecInit ==
    /\ EditorIdle
    /\ orig = NoLayout
    /\ \/ /\ mode = "file"
          /\ cphase = "start"
          /\ raw \in RawTexts
          /\ layout = NoLayout
       \/ /\ mode = "doc"
          /\ cphase = "extracted"
          /\ raw = <<>>
          /\ layout \in Docs

\* extract(), lines 196-199
CExtract ==
    /\ cphase = "start"
    /\ layout' = recursive_parser_str2json(VStr(raw))
    /\ cphase' = "extracted"
    /\ UNCHANGED <<mode, raw, orig>>
    /\ UNCHANGED evars

\* save(), lines 210-213: the tree is encoded in place, then serialized
CSave ==
    /\ cphase = "extracted"
    /\ orig' = layout
    /\ layout' = recursive_parser_json2str(layout)
    /\ raw' = Dumps(layout')
    /\ cphase' = "saved"
    /\ UNCHANGED mode
    /\ UNCHANGED evars

\* extract() of the file save() wrote
CReload ==
    /\ cphase = "saved"
    /\ layout' = recursive_parser_str2json(VStr(raw))
    /\ cphase' = "reloaded"
    /\ UNCHANGED <<mode, raw, orig>>
    /\ UNCHANGED evars

CodecNext == CExtract \/ CSave \/ CReload

CodecSpec == CodecInit /\ [][CodecNext]_vars

(***************************************************************************)
(* Part 2: the section editor and the session                              *)
(***************************************************************************)

\* sections of the document a session starts from, calls of one session
MaxInit == 2
MaxOps == 2

PageNames == {"Page 1", "Page 2"}
ArgNames == PageNames \cup {"Page Foo"}
\* the displayNames, in order, of the documents a session may start from
InitNames == UNION {[1..n -> PageNames] : n \in 0..MaxInit}

Store(h, id, rec) == [i \in (DOMAIN h) \cup {id} |-> IF i = id THEN rec ELSE h[i]]
Restrict(h, S) == [i \in S |-> h[i]]
FreshId(h) ==
    CHOOSE i \in 1..(Cardinality(DOMAIN h) + 1) :
        i \notin DOMAIN h /\ \A j \in 1..(i - 1) : j \in DOMAIN h

Live(secs) == {secs[i] : i \in 1..Len(secs)}
LiveBodies(h, secs) == {h[id].body : id \in Live(secs)}

\* the document as the caller reads it: the fields of each section, in order
View(secs, h, n) ==
    [i \in 1..Len(secs) |->
        [displayName |-> h[secs[i]].displayName,
         ordinal |-> h[secs[i]].ordinal,
         config |-> n[h[secs[i]].body].config]]

\* next(filter(lambda x: self.__filter_by_name(x, name), sections)):
\* the position of the first match, 0 for StopIteration
filter_last(h, secs, name) ==
    LET hits == {i \in 1..Len(secs) : h[secs[i]].displayName = name}
    IN IF hits = {} THEN 0 ELSE CHOOSE i \in hits : \A j \in hits : i >= j
filter_or_last(h, secs, name) ==
    LET hits == {i \in 1..Len(secs) : h[secs[i]].displayName = name}
    IN IF hits = {} THEN Len(secs) ELSE CHOOSE i \in hits : \A j \in hits : i <= j
filter_first(h, secs, name) ==
    LET hits == {i \in 1..Len(secs) : h[secs[i]].displayName = name}
    IN IF hits = {} THEN 0 ELSE CHOOSE i \in hits : \A j \in hits : i <= j

\* copy.deepcopy(dup): a new section dict with new containers inside
shallowcopy(h, n, src) ==
    LET id == FreshId(h)
    IN [heap |-> Store(h, id, h[src]), nested |-> n, id |-> id]
deepcopy(h, n, src) ==
    LET id == FreshId(h)
        bid == FreshId(n)
    IN [heap |-> Store(h, id, [h[src] EXCEPT !.body = bid]),
        nested |-> Store(n, bid, n[h[src].body]),
        id |-> id]

\* sec_idx = sec["ordinal"] + 1
InsertIndexAtAnchor(ordinal) == ordinal
InsertIndex(ordinal) == ordinal + 1

\* sections.insert(idx, id), idx counted from 0
InsertAt(secs, idx, id) ==
    LET k == IF idx > Len(secs) THEN Len(secs) ELSE idx
    IN SubSeq(secs, 1, k) \o <<id>> \o SubSeq(secs, k + 1, Len(secs))

\* the loop body s["ordinal"] = i + sec_idx, for the positions p, p+1, ...
RECURSIVE ReindexLoop(_, _, _)
ReindexLoop(h, secs, p) ==
    IF p >= Len(secs) THEN h
    ELSE ReindexLoop([h EXCEPT ![secs[p + 1]].ordinal = p], secs, p + 1)

\* for i, s in enumerate(sections[sec_idx:]): s["ordinal"] = i + sec_idx
ReindexAfter(h, secs, idx) == ReindexLoop(h, secs, idx + 1)
Reindex(h, secs, idx) == ReindexLoop(h, secs, idx)

\* __recursive_parser_json2str over the sections, in place: the config held
\* in each section's container is stringified once more
RECURSIVE EncodeSections(_, _, _, _)
EncodeSections(n, h, secs, i) ==
    IF i > Len(secs) THEN n
    ELSE EncodeSections([n EXCEPT ![h[secs[i]].body].config = @ + 1], h, secs, i + 1)

\* tempfile.TemporaryDirectory(): the directory, and a finalizer that
\* removes it when the object is destroyed or the interpreter exits
MakeTempDirNoFinalizer == [dir |-> "held", finalizer |-> FALSE]
MakeTempDir == [dir |-> "held", finalizer |-> TRUE]

\* __folder_path.cleanup()
Cleanup(t) == [dir |-> "released", finalizer |-> FALSE]

Init ==
    /\ CodecIdle
    /\ sections = <<>> /\ heap = EmptyHeap /\ nested = EmptyHeap
    /\ pc = "new" /\ err = "none" /\ tmpdir = NoDir
    /\ nops = 0 /\ last = NoCall /\ prev = <<>>

\* the exception leaves the method and reaches the caller
Raise(e) ==
    /\ err' = e
    /\ pc' = "raised"

Return ==
    /\ err' = "none"
    /\ pc' = pc

\* extract(): the archive is unpacked and the Layout decoded
Extract ==
    /\ pc = "new"
    /\ \E names \in InitNames :
          /\ sections' = [i \in 1..Len(names) |-> i]
          /\ heap' = [i \in 1..Len(names) |->
                         [displayName |-> names[i], ordinal |-> i - 1, body |-> i]]
          /\ nested' = [i \in 1..Len(names) |-> [config |-> 0]]
    /\ tmpdir' = MakeTempDir
    /\ pc' = "extracted"
    /\ last' = [NoCall EXCEPT !.op = "extract"]
    /\ UNCHANGED <<err, nops, prev>>
    /\ UNCHANGED cvars

\* extract() when the archive cannot be unpacked or has no Report/Layout
ExtractFail ==
    /\ pc = "new"
    /\ tmpdir' = MakeTempDir
    /\ Raise("OSError")
    /\ last' = [NoCall EXCEPT !.op = "extract"]
    /\ UNCHANGED <<sections, heap, nested, nops, prev>>
    /\ UNCHANGED cvars

rename_section(crt_name, new_name) ==
    /\ pc = "extracted"
    /\ nops < MaxOps
    /\ LET s == filter_first(heap, sections, crt_name)
       IN IF s = 0
          THEN /\ Raise("StopIteration")
               /\ UNCHANGED <<sections, heap, nested>>
          ELSE /\ heap' = [heap EXCEPT ![sections[s]].displayName = new_name]
               /\ Return
               /\ UNCHANGED <<sections, nested>>
    /\ nops' = nops + 1
    /\ last' = [op |-> "rename", a |-> crt_name, b |-> new_name, c |-> ""]
    /\ prev' = View(sections, heap, nested)
    /\ UNCHANGED tmpdir
    /\ UNCHANGED cvars

duplicate_section(name_to_dup, name_after, new_name) ==
    /\ pc = "extracted"
    /\ nops < MaxOps
    /\ LET s == filter_first(heap, sections, name_to_dup)
       IN IF s = 0
          THEN /\ Raise("StopIteration")
               /\ UNCHANGED <<sections, heap, nested>>
          ELSE LET cp == deepcopy(heap, nested, sections[s])
                   h2 == [cp.heap EXCEPT ![cp.id].displayName = new_name]
                   a == filter_first(h2, sections, name_after)
               IN IF a = 0
                  THEN /\ Raise("StopIteration")
                       /\ heap' = Restrict(h2, Live(sections))
                       /\ nested' = Restrict(cp.nested, LiveBodies(h2, sections))
                       /\ UNCHANGED sections
                  ELSE LET idx == InsertIndex(h2[sections[a]].ordinal)
                           secs2 == InsertAt(sections, idx, cp.id)
                           h3 == Reindex(h2, secs2, idx)
                       IN /\ sections' = secs2
                          /\ heap' = Restrict(h3, Live(secs2))
                          /\ nested' = Restrict(cp.nested, LiveBodies(h3, secs2))
                          /\ Return
    /\ nops' = nops + 1
    /\ last' = [op |-> "duplicate", a |-> name_to_dup, b |-> name_after, c |-> new_name]
    /\ prev' = View(sections, heap, nested)
    /\ UNCHANGED tmpdir
    /\ UNCHANGED cvars

Rename == \E crt \in ArgNames, new \in ArgNames : rename_section(crt, new)

Duplicate ==
    \E dup \in ArgNames, after \in ArgNames, new \in ArgNames :
        duplicate_section(dup, after, new)

\* where save() stops: the Layout cannot be opened for writing (line 211),
\* the text cannot be written (213), SecurityBindings is missing (58), the
\* archive cannot be written (62-64), or nowhere
SaveOutcomes == {"open", "write", "unlink", "pack", "ok"}

\* save(out_pbix) and export_pbix(out_pbix)
Save ==
    /\ pc = "extracted"
    /\ \E outcome \in SaveOutcomes :
          /\ nested' = IF outcome = "open" THEN nested
                       ELSE EncodeSections(nested, heap, sections, 1)
          /\ IF outcome = "ok"
             THEN /\ tmpdir' = Cleanup(tmpdir)
                  /\ pc' = "saved"
                  /\ err' = "none"
             ELSE /\ Raise("OSError")
                  /\ UNCHANGED tmpdir
          /\ last' = [NoCall EXCEPT !.op = "save", !.a = outcome]
    /\ prev' = View(sections, heap, nested)
    /\ UNCHANGED <<sections, heap, nops>>
    /\ UNCHANGED cvars

\* the caller catches the exception of a failed lookup and goes on
Catch ==
    /\ pc = "raised"
    /\ err = "StopIteration"
    /\ pc' = "extracted"
    /\ UNCHANGED <<sections, heap, nested, err, tmpdir, nops, last, prev>>
    /\ UNCHANGED cvars

\* the script ends (after save(), without it, or with the exception
\* uncaught): the interpreter exits and runs the finalizers still registered
Exit ==
    /\ pc \in {"extracted", "saved", "raised"}
    /\ pc' = "exited"
    /\ tmpdir' = IF tmpdir.finalizer THEN Cleanup(tmpdir) ELSE tmpdir
    /\ UNCHANGED <<sections, heap, nested, err, nops, last, prev>>
    /\ UNCHANGED cvars

Next ==
    Extract \/ ExtractFail \/ Rename \/ Duplicate \/ Save \/ Catch \/ Exit

Spec == Init /\ [][Next]_vars

\* the interpreter keeps running the script until it exits
FairSpec == Spec /\ WF_vars(Next)

(***************************************************************************)
(* Properties of the codec                                                 *)
(***************************************************************************)

IsContainer(v) == Tag(v) \in {"dict", "list"}

\* some mapping of the tree has a field under a special parsing key
RECURSIVE HasSpecialKey(_)
HasSpecialKey(v) ==
    CASE Tag(v) = "list" -> \E i \in 1..Len(Payload(v)) : HasSpecialKey(Payload(v)[i])
      [] Tag(v) = "dict" ->
            \E k \in DOMAIN Payload(v) :
                k \in special_parsing_keys \/ HasSpecialKey(Payload(v)[k])
      [] OTHER -> FALSE

\* some string of the tree is itself JSON text
RECURSIVE HasJsonString(_)
HasJsonString(v) ==
    CASE Tag(v) = "str" -> Loads(Payload(v)).ok
      [] Tag(v) = "list" -> \E i \in 1..Len(Payload(v)) : HasJsonString(Payload(v)[i])
      [] Tag(v) = "dict" -> \E k \in DOMAIN Payload(v) : HasJsonString(Payload(v)[k])
      [] OTHER -> FALSE

\* some special-key field of the tree holds a container that itself has a
\* special-key field holding a container
RECURSIVE HasContainerUnderSpecial(_)
HasContainerUnderSpecial(v) ==
    CASE Tag(v) = "list" ->
            \E i \in 1..Len(Payload(v)) : HasContainerUnderSpecial(Payload(v)[i])
      [] Tag(v) = "dict" ->
            \E k \in DOMAIN Payload(v) :
                \/ k \in special_parsing_keys /\ IsContainer(Payload(v)[k])
                \/ HasContainerUnderSpecial(Payload(v)[k])
      [] OTHER -> FALSE

RECURSIVE HasNestedSpecial(_)
HasNestedSpecial(v) ==
    CASE Tag(v) = "list" -> \E i \in 1..Len(Payload(v)) : HasNestedSpecial(Payload(v)[i])
      [] Tag(v) = "dict" ->
            \E k \in DOMAIN Payload(v) :
                IF k \in special_parsing_keys
                THEN HasContainerUnderSpecial(Payload(v)[k])
                ELSE HasNestedSpecial(Payload(v)[k])
      [] OTHER -> FALSE

\* e is o with every special-key field reached through non-special keys and
\* sequence elements replaced by a string that is plain JSON for the field
RECURSIVE EncodedAs(_, _)
EncodedAs(o, e) ==
    CASE Tag(o) = "list" ->
            /\ Tag(e) = "list"
            /\ Len(Payload(e)) = Len(Payload(o))
            /\ \A i \in 1..Len(Payload(o)) : EncodedAs(Payload(o)[i], Payload(e)[i])
      [] Tag(o) = "dict" ->
            /\ Tag(e) = "dict"
            /\ DOMAIN Payload(e) = DOMAIN Payload(o)
            /\ \A k \in DOMAIN Payload(o) :
                  IF k \in special_parsing_keys
                  THEN /\ Tag(Payload(e)[k]) = "str"
                       /\ Loads(Payload(Payload(e)[k])).ok
                       /\ Loads(Payload(Payload(e)[k])).val = Payload(o)[k]
                  ELSE EncodedAs(Payload(o)[k], Payload(e)[k])
      [] OTHER -> e = o

\* C5 as claimed: for every document d without special-key fields,
\* decode(encode(d)) equals d.
C5_RoundTripAnyDoc ==
    (mode = "doc" /\ cphase = "reloaded" /\ ~HasSpecialKey(orig))
        => layout = orig

\* C5 amended: for every document d without special-key fields and without
\* a string value that is itself JSON text, decode(encode(d)) equals d.
C5_RoundTripPlainDoc ==
    (mode = "doc" /\ cphase = "reloaded" /\ ~HasSpecialKey(orig)
        /\ ~HasJsonString(orig))
        => layout = orig

C5_Witness ==
    /\ mode = "doc" /\ cphase = "reloaded"
    /\ ~HasSpecialKey(orig) /\ ~HasJsonString(orig)
    /\ \E k \in DOMAIN Payload(orig) : IsContainer(Payload(orig)[k])

\* the document save() found is a mapping with a container under a special key
SpecialCase ==
    /\ orig # NoLayout
    /\ Tag(orig) = "dict"
    /\ \E k \in DOMAIN Payload(orig) :
          k \in special_parsing_keys /\ IsContainer(Payload(orig)[k])

\* what encode wrote for such a mapping: the special field is a string whose
\* content parses to the field's value, the other fields keep their kind,
\* and the text written is the JSON of that tree
SpecialFieldsWritten ==
    /\ Tag(layout) = "dict"
    /\ DOMAIN Payload(layout) = DOMAIN Payload(orig)
    /\ \A k \in DOMAIN Payload(orig) :
          IF k \in special_parsing_keys
          THEN /\ Tag(Payload(layout)[k]) = "str"
               /\ Loads(Payload(Payload(layout)[k])).ok
               /\ Loads(Payload(Payload(layout)[k])).val = Payload(orig)[k]
          ELSE Tag(Payload(layout)[k]) = Tag(Payload(orig)[k])
    /\ Loads(raw).ok
    /\ Loads(raw).val = layout

\* C6 as claimed: a container under a special key is written as one JSON
\* string literal, other fields as plain JSON, and decode of the output
\* gives the original mapping back.
C6_SpecialKeyAsymmetry ==
    SpecialCase =>
        /\ cphase = "saved" => SpecialFieldsWritten
        /\ cphase = "reloaded" => layout = orig

\* C6 amended: as claimed, with decode giving the original mapping back when
\* no string value of the mapping is itself JSON text.
C6_SpecialKeyAsymmetryPlain ==
    SpecialCase =>
        /\ cphase = "saved" => SpecialFieldsWritten
        /\ (cphase = "reloaded" /\ ~HasJsonString(orig)) => layout = orig

C6_Witness ==
    /\ SpecialCase
    /\ cphase = "reloaded"
    /\ ~HasJsonString(orig)
    /\ \E k \in DOMAIN Payload(orig) : k \notin special_parsing_keys

\* C7: decode(encode(decode(x))) equals decode(x) for every Layout text x.
C7_DecodeEncodeDecode ==
    (mode = "file" /\ cphase = "reloaded") => layout = orig

C7_Witness ==
    /\ mode = "file" /\ cphase = "reloaded"
    /\ HasNestedSpecial(orig)
    /\ layout = orig

\* C10: encode replaces a special-key field by a string at every place
\* reached through non-special keys and sequence elements, and the string is
\* plain JSON of the field's value: a special key inside it is not
\* stringified again.
C10_OneLevelOfStringification ==
    cphase = "saved" => EncodedAs(orig, layout)

C10_Witness ==
    /\ cphase = "saved"
    /\ HasNestedSpecial(orig)
    /\ EncodedAs(orig, layout)

(***************************************************************************)
(* Properties of the section editor and the session                        *)
(***************************************************************************)

CurView == View(sections, heap, nested)

Named(v, name) == \E i \in 1..Len(v) : v[i].displayName = name
FirstNamed(v, name) ==
    CHOOSE i \in 1..Len(v) :
        /\ v[i].displayName = name
        /\ \A j \in 1..(i - 1) : v[j].displayName # name

\* ordinals count the positions from 0
Contiguous(v) == \A i \in 1..Len(v) : v[i].ordinal = i - 1

\* C1: after any sequence of rename and duplicate calls, failing ones
\* included, every section's ordinal equals its position.
C1_OrdinalsArePositions == Contiguous(CurView)

C1_Witness ==
    /\ nops >= 2
    /\ last.op = "duplicate" /\ err = "none"
    /\ Named(prev, last.c)
    /\ Len(sections) >= 3
    /\ Contiguous(CurView)

\* the document after duplicate_section(last.a, last.b, last.c) on prev
DuplicatePost ==
    LET P == prev
        Q == CurView
        src == FirstNamed(P, last.a)
        anchor == FirstNamed(P, last.b)
        idx == P[anchor].ordinal + 1
    IN /\ Len(Q) = Len(P) + 1
       /\ Q[idx + 1] = [P[src] EXCEPT !.displayName = last.c, !.ordinal = idx]
       /\ \A i \in 1..idx : Q[i] = P[i]
       /\ \A i \in (idx + 1)..Len(P) : Q[i + 1] = [P[i] EXCEPT !.ordinal = P[i].ordinal + 1]
       /\ last.a = last.b => idx = src
       /\ anchor = Len(P) => idx + 1 = Len(Q)

\* C2: a duplicate_section call whose two names are found inserts one copy
\* right after the first section named name_after, named new_name, with the
\* position as ordinal; later sections move one place right with their
\* ordinal incremented, earlier sections are unchanged.
C2_DuplicateInsertsAfterAnchor ==
    (last.op = "duplicate" /\ Named(prev, last.a) /\ Named(prev, last.b)
        /\ Contiguous(prev))
        => (err = "none" /\ DuplicatePost)

C2_Witness ==
    /\ last = [op |-> "duplicate", a |-> "Page 1", b |-> "Page 1", c |-> "Page Foo"]
    /\ Len(prev) = 2
    /\ prev[2].displayName = "Page 2"
    /\ [i \in 1..Len(sections) |-> CurView[i].displayName]
          = <<"Page 1", "Page Foo", "Page 2">>
    /\ [i \in 1..Len(sections) |-> CurView[i].ordinal] = <<0, 1, 2>>

LookupFails ==
    \/ last.op = "rename" /\ ~Named(prev, last.a)
    \/ last.op = "duplicate" /\ (~Named(prev, last.a) \/ ~Named(prev, last.b))

\* C3: a call whose lookup finds no section raises to the caller and leaves
\* the document as it was.
C3_LookupFailureRaises ==
    LookupFails =>
        /\ err = "StopIteration"
        /\ CurView = prev

C3_Witness ==
    /\ last.op = "duplicate"
    /\ Named(prev, last.a) /\ ~Named(prev, last.b)
    /\ err = "StopIteration"
    /\ CurView = prev

\* C4: no two sections of the document are the same object or hold the same
\* container, so a change made through one is not seen through another; in
\* particular save() stringifies the config of each section exactly once.
C4_CopyIsIndependent ==
    /\ \A i, j \in 1..Len(sections) :
          i # j => /\ sections[i] # sections[j]
                   /\ heap[sections[i]].body # heap[sections[j]].body
    /\ pc = "saved" => \A i \in 1..Len(sections) : CurView[i].config = 1

C4_Witness ==
    /\ Len(sections) > MaxInit
    /\ pc = "saved"
    /\ \A i \in 1..Len(sections) : CurView[i].config = 1

\* the document after rename_section(last.a, last.b) on prev
RenamePost ==
    LET P == prev
        Q == CurView
        t == FirstNamed(P, last.a)
    IN /\ Len(Q) = Len(P)
       /\ Q[t] = [P[t] EXCEPT !.displayName = last.b]
       /\ \A i \in 1..Len(P) : i # t => Q[i] = P[i]
       /\ last.a = last.b => Q = P

\* C8: a rename_section call whose name is found changes the displayName of
\* the first section carrying it, and nothing else.
C8_RenameChangesOneName ==
    (last.op = "rename" /\ Named(prev, last.a)) => (err = "none" /\ RenamePost)

C8_Witness ==
    /\ last.op = "rename" /\ err = "none"
    /\ last.a # last.b
    /\ \E i, j \in 1..Len(prev) :
          i < j /\ prev[i].displayName = last.a /\ prev[j].displayName = last.a
    /\ RenamePost

\* C9: the working directory extract() acquired is eventually released, on
\* every path of the session.
C9_WorkingDirReleased == (tmpdir.dir = "held") ~> (tmpdir.dir = "released")

C9_Witness ==
    /\ pc = "exited"
    /\ err = "StopIteration"
    /\ tmpdir.dir = "released"
====
